---- MODULE Spec2Model ----
(***************************************************************************)
(* Model of track_similar_cases.py: the status classifier                  *)
(* (parse_timeline_entries), the store cleaning (clean_existing_history)   *)
(* and the run of main() over the list of receipt numbers.                 *)
(*                                                                         *)
(* Dates are day numbers: an ISO date string YYYY-MM-DD compares as its    *)
(* day does, and InvalidDate stands for every string parse_date returns    *)
(* unchanged (not of the shape YYYY-MM-DD).  Receipt numbers are strings   *)
(* whose alphabetical order is the order of ReceiptNumbers.                *)
(***************************************************************************)
EXTENDS Integers, Sequences, FiniteSets, TLC

\* ------------------------------------------------------------------ bounds
\* Longest timeline handed to the classifier.
MaxTimeline == 3
\* Latest day a status can carry.
MaxDate == 2
\* Longest list of receipt numbers in similar.txt.
MaxCases == 2
\* Most rows of a history file that predates the first modelled run.
MaxRows == 2

\* ------------------------------------------------------ program constants
\* time.sleep(1) after a failed fetch, time.sleep(1.5) between cases; in
\* tenths of a second.
FailureDelay == 10
PoliteDelay == 15

\* ------------------------------------------------------------- vocabulary
InvalidDate == 0

ReceiptNumbers == <<"IOE0900000001", "IOE0900000002">>

Cases == {ReceiptNumbers[k] : k \in 1..Len(ReceiptNumbers)}

\* Alphabetical rank of a receipt number (Python's string order).
ReceiptRank(rn) == CHOOSE k \in 1..Len(ReceiptNumbers) : ReceiptNumbers[k] = rn

\* The words of a status, lower-cased: what `x in status.lower()` can find.
LowerWords(status) ==
    CASE status = "Interview Cancelled" -> {"interview", "cancelled"}
      [] status = "Interview Canceled" -> {"interview", "canceled"}
      [] status = "Interview Was Scheduled" -> {"interview", "was", "scheduled"}
      [] status = "Case Was Received" -> {"case", "was", "received"}
      [] status = "Case Was Updated" -> {"case", "was", "updated"}
      [] OTHER -> {}

StatusTypes == {"case_received", "interview_cancelled", "last_status"}

VARIABLES
    \* main()
    pc, similar_txt, cases, history_file, df_history, all_new_entries, i,
    driver, current_time, delays, fetched,
    \* bookkeeping for the properties
    loaded, cleaned, last_records,
    \* classifier on its own
    phase, timeline_entries, reordered, history_records, reordered_records,
    \* the line scan of get_case_timeline on its own
    lines, line_i, scanned_entries

main_vars ==
    <<pc, similar_txt, cases, history_file, df_history, all_new_entries, i,
      driver, current_time, delays, fetched, loaded, cleaned, last_records>>

classifier_vars ==
    <<phase, timeline_entries, reordered, history_records, reordered_records>>

scan_vars == <<lines, line_i, scanned_entries>>

vars == <<main_vars, classifier_vars, scan_vars>>

\* --------------------------------------------------------------- helpers
Range(s) == {s[k] : k \in 1..Len(s)}

\* All sequences over S of length at most n.
SeqsUpTo(S, n) == UNION {[1..k -> S] : k \in 0..n}

NoRepeats(s) == \A a, b \in 1..Len(s) : a # b => s[a] # s[b]

\* s sorted by the keys key[1..Len(s)], elements of equal key left in their
\* order (Python's sorted, and pandas' sort on frames this small, are stable).
StableSort(s, key) ==
    LET n == Len(s)
        pos(j) == 1 + Cardinality({m \in 1..n :
                        \/ key[m] < key[j]
                        \/ key[m] = key[j] /\ m < j})
    IN  [p \in 1..n |-> s[CHOOSE j \in 1..n : pos(j) = p]]

\* ------------------------------------------------ parse_timeline_entries
Entry(date, status) == [date |-> date, status |-> status]

\* re.match(r'^\d{4}-\d{2}-\d{2}$', date_str)
IsIsoDate(date) == date # InvalidDate

valid_entries(entries) == SelectSeq(entries, LAMBDA e : IsIsoDate(e.date))

\* The entries in the order they came, not sorted.
UnsortedEntries(entries) == entries

\* sorted(valid_entries, key=lambda x: x['date']): stable, by date only.
sorted_entries(entries) ==
    StableSort(entries, [k \in 1..Len(entries) |-> entries[k].date])

IsInterviewCancelled(status) ==
    /\ "interview" \in LowerWords(status)
    /\ \/ "cancelled" \in LowerWords(status)
       \/ "canceled" \in LowerWords(status)

\* The entry of s at the least index of hits, where the for loop breaks, as
\* a sequence of length 0 or 1 (None is the empty sequence).
FirstAt(s, hits) ==
    IF hits = {} THEN <<>>
    ELSE <<s[CHOOSE k \in hits : \A m \in hits : k <= m]>>

find_interview_cancelled(sorted) ==
    FirstAt(sorted,
            {k \in 1..Len(sorted) : IsInterviewCancelled(sorted[k].status)})

\* The chronologically first entry, and none when it is a cancellation.
FirstEntryUnlessCancelled(sorted) ==
    IF sorted # <<>> /\ ~IsInterviewCancelled(sorted[1].status)
    THEN <<sorted[1]>> ELSE <<>>

find_case_received(sorted) ==
    FirstAt(sorted,
            {k \in 1..Len(sorted) : ~IsInterviewCancelled(sorted[k].status)})

find_last_status(sorted) ==
    IF sorted # <<>> THEN <<sorted[Len(sorted)]>> ELSE <<>>

Record(receipt_number, e, status_type, check_timestamp) ==
    [receipt_number |-> receipt_number, status |-> e.status,
     status_date |-> e.date, status_type |-> status_type,
     scraped_at |-> check_timestamp]

\* The three picks emitted as they were found, none held back as a duplicate.
parse_without_dedup(entries, receipt_number, check_timestamp) ==
    LET sorted == sorted_entries(valid_entries(entries))
        emit(pick, status_type) ==
            IF pick # <<>>
            THEN <<Record(receipt_number, pick[1], status_type, check_timestamp)>>
            ELSE <<>>
    IN  emit(find_case_received(sorted), "case_received")
            \o emit(find_interview_cancelled(sorted), "interview_cancelled")
            \o emit(find_last_status(sorted), "last_status")

parse_timeline_entries(entries, receipt_number, check_timestamp) ==
    LET valid == valid_entries(entries)
        sorted == sorted_entries(valid)
        case_received == find_case_received(sorted)
        interview_cancelled == find_interview_cancelled(sorted)
        last_status == find_last_status(sorted)
        added1 == Range(case_received)
        rec1 == IF case_received # <<>>
                THEN <<Record(receipt_number, case_received[1],
                              "case_received", check_timestamp)>>
                ELSE <<>>
        keep2 == interview_cancelled # <<>> /\ interview_cancelled[1] \notin added1
        added2 == IF keep2 THEN added1 \cup Range(interview_cancelled) ELSE added1
        rec2 == IF keep2
                THEN <<Record(receipt_number, interview_cancelled[1],
                              "interview_cancelled", check_timestamp)>>
                ELSE <<>>
        keep3 == last_status # <<>> /\ last_status[1] \notin added2
        rec3 == IF keep3
                THEN <<Record(receipt_number, last_status[1],
                              "last_status", check_timestamp)>>
                ELSE <<>>
    IN  IF entries = <<>> \/ valid = <<>> THEN <<>>
        ELSE rec1 \o rec2 \o rec3

\* ---------------------------------------------- the classifier on its own
ClassifierStatuses ==
    {"Interview Cancelled", "Interview Was Scheduled", "Case Was Updated"}

TimelineEntries ==
    {Entry(d, s) : d \in {InvalidDate} \cup 1..MaxDate, s \in ClassifierStatuses}

\* What get_case_timeline can return: no (date, status) pair twice.
Timelines == {t \in SeqsUpTo(TimelineEntries, MaxTimeline) : NoRepeats(t)}

SwapAt(s, k) ==
    [p \in 1..Len(s) |-> IF p = k THEN s[k + 1] ELSE IF p = k + 1 THEN s[k] ELSE s[p]]

MainIdle ==
    /\ pc = "idle"
    /\ similar_txt = [exists |-> FALSE, lines |-> <<>>]
    /\ cases = <<>>
    /\ history_file = [exists |-> FALSE, has_status_type |-> TRUE, rows |-> <<>>]
    /\ df_history = <<>>
    /\ all_new_entries = <<>>
    /\ i = 0
    /\ driver = "none"
    /\ current_time = 0
    /\ delays = <<>>
    /\ fetched = <<>>
    /\ loaded = <<>>
    /\ cleaned = <<>>
    /\ last_records = [c \in Cases |-> <<>>]

ClassifierIdle ==
    /\ phase = "idle"
    /\ timeline_entries = <<>>
    /\ reordered = <<>>
    /\ history_records = <<>>
    /\ reordered_records = <<>>

ScanIdle ==
    /\ lines = <<>>
    /\ line_i = 0
    /\ scanned_entries = <<>>

InitClassify ==
    /\ MainIdle
    /\ ScanIdle
    /\ phase = "input"
    /\ timeline_entries \in Timelines
    /\ reordered = timeline_entries
    /\ history_records = <<>>
    /\ reordered_records = <<>>

\* The same entries reach the classifier in another order.
Reorder ==
    /\ phase = "input"
    /\ \E k \in 1..(Len(reordered) - 1) : reordered' = SwapAt(reordered, k)
    /\ UNCHANGED <<phase, timeline_entries, history_records, reordered_records>>
    /\ UNCHANGED <<main_vars, scan_vars>>

Classify ==
    /\ phase = "input"
    /\ history_records' =
           parse_timeline_entries(timeline_entries, ReceiptNumbers[1], 1)
    /\ reordered_records' =
           parse_timeline_entries(reordered, ReceiptNumbers[1], 1)
    /\ phase' = "classified"
    /\ UNCHANGED <<timeline_entries, reordered>>
    /\ UNCHANGED <<main_vars, scan_vars>>

NextClassify == Reorder \/ Classify

SpecClassify == InitClassify /\ [][NextClassify]_vars

\* ------------------------------------------------ clean_existing_history
Row(receipt_number, status, status_date, status_type, scraped_at) ==
    [receipt_number |-> receipt_number, status |-> status,
     status_date |-> status_date, status_type |-> status_type,
     scraped_at |-> scraped_at]

\* df.sort_values('status_date')
sort_by_status_date(df) ==
    StableSort(df, [k \in 1..Len(df) |-> df[k].status_date])

\* df.sort_values(['receipt_number', 'status_date']).reset_index(drop=True)
\* A stable sort on the minor key, then one on the major key.
sort_by_receipt_and_date(df) ==
    LET by_date == sort_by_status_date(df)
    IN  StableSort(by_date,
            [k \in 1..Len(by_date) |-> ReceiptRank(by_date[k].receipt_number)])

\* Series.unique(): the values in order of first appearance.
RECURSIVE unique(_)
unique(s) ==
    IF s = <<>> THEN <<>>
    ELSE LET u == unique(SubSeq(s, 1, Len(s) - 1))
         IN  IF s[Len(s)] \in Range(u) THEN u ELSE Append(u, s[Len(s)])

\* df.tail(1)
tail1(df) == IF df = <<>> THEN <<>> ELSE <<df[Len(df)]>>

\* The rows clean_existing_history keeps for one case: one of each type, in
\* the order case_received, interview_cancelled, last_status.
kept_for_case(df_clean, case) ==
    LET case_entries ==
            sort_by_status_date(
                SelectSeq(df_clean, LAMBDA r : r.receipt_number = case))
        of_type(t) == tail1(SelectSeq(case_entries, LAMBDA r : r.status_type = t))
    IN  of_type("case_received") \o of_type("interview_cancelled")
            \o of_type("last_status")

RECURSIVE cleaned_history(_, _)
cleaned_history(df_clean, case_list) ==
    IF case_list = <<>> THEN <<>>
    ELSE kept_for_case(df_clean, Head(case_list))
            \o cleaned_history(df_clean, Tail(case_list))

\* Cleaning that drops the 'unknown' rows and keeps every other row.
clean_without_tail(df_history_in) ==
    sort_by_receipt_and_date(
        SelectSeq(df_history_in, LAMBDA r : r.status_type # "unknown"))

clean_existing_history(df_history_in) ==
    IF df_history_in = <<>> THEN df_history_in
    ELSE LET df_clean ==
                 SelectSeq(df_history_in, LAMBDA r : r.status_type # "unknown")
             case_list ==
                 unique([k \in 1..Len(df_clean) |-> df_clean[k].receipt_number])
         IN  sort_by_receipt_and_date(cleaned_history(df_clean, case_list))

\* ------------------------------------------------------------------ main
\* pd.read_csv, and the 'unknown' default for a file without the column.
read_history(file) ==
    IF file.has_status_type THEN file.rows
    ELSE [k \in 1..Len(file.rows) |->
             [file.rows[k] EXCEPT !.status_type = "unknown"]]

\* The frame unfiltered: the receipt-number test left out.
all_case_records(df, case) == df

\* df_history[df_history['receipt_number'] == case]
existing_case_records(df, case) == SelectSeq(df, LAMBDA r : r.receipt_number = case)

\* One pass of the loop over new_records (lines 388-404) for one record:
\* st is [df |-> df_history, new |-> new_entries_for_case].
merge_record(st, existing, record) ==
    LET existing_type_match ==
            SelectSeq(existing, LAMBDA r : r.status_type = record.status_type)
        existing_entry == existing_type_match[1]
    IN  IF existing_type_match = <<>>
        THEN [st EXCEPT !.new = Append(@, record)]
        ELSE IF \/ existing_entry.status_date # record.status_date
                \/ existing_entry.status # record.status
        THEN [df |-> SelectSeq(st.df,
                        LAMBDA r : r \notin Range(existing_type_match)),
              new |-> Append(st.new, record)]
        ELSE st

RECURSIVE merge_records(_, _, _)
merge_records(st, existing, new_records) ==
    IF new_records = <<>> THEN st
    ELSE merge_records(merge_record(st, existing, Head(new_records)),
                       existing, Tail(new_records))

\* Lines 376-412: [df |-> df_history, new |-> what all_new_entries gains].
merge_case(df, case, new_records) ==
    LET existing == existing_case_records(df, case)
    IN  IF existing = <<>> THEN [df |-> df, new |-> new_records]
        ELSE merge_records([df |-> df, new |-> <<>>], existing, new_records)

\* Lines 423-435: the frame written to the history file.
saved_frame(df, new_entries) ==
    sort_by_receipt_and_date(
        IF new_entries # <<>> THEN sort_by_receipt_and_date(df \o new_entries)
        ELSE df)

\* The (status_type, status_date, status) of classified records.
Triples(records) ==
    {<<r.status_type, r.status_date, r.status>> : r \in Range(records)}

\* datetime.now() of the run: later than every scraped_at already on file.
RunTime == MaxRows + 1

\* ---- what a run starts from
\* The entries a fetched page holds: a filing and a later event.
FetchedEntries ==
    {Entry(1, "Case Was Received"), Entry(2, "Case Was Received")}

\* The timelines a fetch can return (get_case_timeline never repeats a pair).
FetchedTimelines ==
    {t \in SeqsUpTo(FetchedEntries, Cardinality(FetchedEntries)) : NoRepeats(t)}

\* Rows of a history file that earlier versions and earlier runs left: the
\* first case with rows of every type and two dates, the second with one row.
LegacyRows ==
    {Row(ReceiptNumbers[1], "Case Was Received", 1, t, 1) :
        t \in StatusTypes \cup {"unknown"}}
    \cup {Row(ReceiptNumbers[1], "Case Was Received", 2, "case_received", 1),
          Row(ReceiptNumbers[2], "Case Was Received", 1, "case_received", 1)}

\* A file of a version that wrote no status_type column: the field is blank.
LegacyRowsNoType == {Row(rn, "Case Was Received", 1, "", 1) : rn \in Cases}

HistoryFilesOver(typed, untyped) ==
    {[exists |-> FALSE, has_status_type |-> TRUE, rows |-> <<>>]}
    \cup {[exists |-> TRUE, has_status_type |-> TRUE, rows |-> rows] :
            rows \in SeqsUpTo(typed, MaxRows)}
    \cup {[exists |-> TRUE, has_status_type |-> FALSE, rows |-> rows] :
            rows \in SeqsUpTo(untyped, MaxRows)}

HistoryFiles == HistoryFilesOver(LegacyRows, LegacyRowsNoType)

SimilarFiles ==
    {[exists |-> FALSE, lines |-> <<>>]}
    \cup {[exists |-> TRUE, lines |-> listed] : listed \in SeqsUpTo(Cases, MaxCases)}

Init ==
    /\ ClassifierIdle
    /\ ScanIdle
    /\ pc = "start"
    /\ similar_txt \in SimilarFiles
    /\ history_file \in HistoryFiles
    /\ cases = <<>>
    /\ df_history = <<>>
    /\ all_new_entries = <<>>
    /\ i = 0
    /\ driver = "none"
    /\ current_time = 0
    /\ delays = <<>>
    /\ fetched = <<>>
    /\ loaded = <<>>
    /\ cleaned = <<>>
    /\ last_records = [c \in Cases |-> <<>>]

\* Lines 320-325: similar.txt is missing, main returns.
NoSimilarFile ==
    /\ pc = "start"
    /\ ~similar_txt.exists
    /\ pc' = "returned"
    /\ UNCHANGED <<similar_txt, cases, history_file, df_history, all_new_entries,
                   i, driver, current_time, delays, fetched, loaded, cleaned,
                   last_records>>
    /\ UNCHANGED <<classifier_vars, scan_vars>>

\* Lines 320-345: read and sort the cases, load and clean the history.
LoadHistory ==
    /\ pc = "start"
    /\ similar_txt.exists
    /\ cases' = StableSort(similar_txt.lines,
                           [k \in 1..Len(similar_txt.lines) |->
                               ReceiptRank(similar_txt.lines[k])])
    /\ loaded' = IF history_file.exists THEN read_history(history_file) ELSE <<>>
    /\ df_history' = IF history_file.exists
                     THEN clean_existing_history(read_history(history_file))
                     ELSE <<>>
    /\ cleaned' = df_history'
    /\ pc' = "setup"
    /\ UNCHANGED <<similar_txt, history_file, all_new_entries, i, driver,
                   current_time, delays, fetched, last_records>>
    /\ UNCHANGED <<classifier_vars, scan_vars>>

\* Lines 347-355: the browser starts; the loop's locals are set.
SetupDriver ==
    /\ pc = "setup"
    /\ driver' = "open"
    /\ current_time' = RunTime
    /\ all_new_entries' = <<>>
    /\ i' = 1
    /\ pc' = "loop"
    /\ UNCHANGED <<similar_txt, cases, history_file, df_history, delays, fetched,
                   loaded, cleaned, last_records>>
    /\ UNCHANGED <<classifier_vars, scan_vars>>

\* Line 349: setup_driver raises; nothing was processed, nothing is saved.
SetupDriverFails ==
    /\ pc = "setup"
    /\ pc' = "aborted"
    /\ UNCHANGED <<similar_txt, cases, history_file, df_history, all_new_entries,
                   i, driver, current_time, delays, fetched, loaded, cleaned,
                   last_records>>
    /\ UNCHANGED <<classifier_vars, scan_vars>>

\* Lines 361-366: no timeline (the fetch failed, or the page held nothing).
FetchFails ==
    /\ pc = "loop"
    /\ i <= Len(cases)
    /\ delays' = Append(delays, FailureDelay)
    /\ fetched' = Append(fetched, "fail")
    /\ i' = i + 1
    /\ UNCHANGED <<pc, similar_txt, cases, history_file, df_history,
                   all_new_entries, driver, current_time, loaded, cleaned,
                   last_records>>
    /\ UNCHANGED <<classifier_vars, scan_vars>>

\* Lines 357-416 for a case whose timeline came back.
FetchAndMerge ==
    /\ pc = "loop"
    /\ i <= Len(cases)
    /\ \E timeline \in FetchedTimelines \ {<<>>} :
        LET case == cases[i]
            new_records == parse_timeline_entries(timeline, case, current_time)
            merged == merge_case(df_history, case, new_records)
        IN  /\ df_history' = merged.df
            /\ all_new_entries' = all_new_entries \o merged.new
            /\ last_records' = [last_records EXCEPT ![case] = <<Triples(new_records)>>]
    /\ delays' = Append(delays, IF i < Len(cases) THEN PoliteDelay ELSE 0)
    /\ fetched' = Append(fetched, "ok")
    /\ i' = i + 1
    /\ UNCHANGED <<pc, similar_txt, cases, history_file, driver, current_time,
                   loaded, cleaned>>
    /\ UNCHANGED <<classifier_vars, scan_vars>>

\* Lines 351, 418-421: the try has a finally and no except.  An exception
\* raised in the loop body (lines 368-416 are under no handler, and
\* get_case_timeline lets a KeyboardInterrupt through: it catches Exception)
\* runs the finally clause, which closes the browser, and leaves main.
UnhandledFailure ==
    /\ pc = "loop"
    /\ i <= Len(cases)
    /\ driver' = "closed"
    /\ pc' = "crashed"
    /\ UNCHANGED <<similar_txt, cases, history_file, df_history, all_new_entries,
                   i, current_time, delays, fetched, loaded, cleaned, last_records>>
    /\ UNCHANGED <<classifier_vars, scan_vars>>

\* Lines 418-421: the loop is over, the browser is closed.
CloseBrowser ==
    /\ pc = "loop"
    /\ i > Len(cases)
    /\ driver' = "closed"
    /\ pc' = "save"
    /\ UNCHANGED <<similar_txt, cases, history_file, df_history, all_new_entries,
                   i, current_time, delays, fetched, loaded, cleaned, last_records>>
    /\ UNCHANGED <<classifier_vars, scan_vars>>

\* Lines 423-435: the new entries join the frame, which is sorted and saved.
SaveHistory ==
    /\ pc = "save"
    /\ history_file' = [exists |-> TRUE, has_status_type |-> TRUE,
                        rows |-> saved_frame(df_history, all_new_entries)]
    /\ pc' = "done"
    /\ UNCHANGED <<similar_txt, cases, df_history, all_new_entries, i, driver,
                   current_time, delays, fetched, loaded, cleaned, last_records>>
    /\ UNCHANGED <<classifier_vars, scan_vars>>

Next ==
    \/ NoSimilarFile
    \/ LoadHistory
    \/ SetupDriver
    \/ SetupDriverFails
    \/ FetchFails
    \/ FetchAndMerge
    \/ UnhandledFailure
    \/ CloseBrowser
    \/ SaveHistory

Spec == Init /\ [][Next]_vars

\* ------------------------------------------------- cleaning on its own
\* Files with rows that differ in status_date and in scraped_at.
CleanRows ==
    {Row(rn, "Case Was Received", d, t, at) :
        rn \in Cases, d \in 1..MaxDate,
        t \in StatusTypes \cup {"unknown"}, at \in 1..MaxRows}

CleanRowsNoType ==
    {Row(rn, "Case Was Received", d, "", at) :
        rn \in Cases, d \in 1..MaxDate, at \in 1..MaxRows}

InitClean ==
    /\ ClassifierIdle
    /\ ScanIdle
    /\ pc = "start"
    /\ similar_txt = [exists |-> TRUE, lines |-> <<>>]
    /\ history_file \in HistoryFilesOver(CleanRows, CleanRowsNoType)
    /\ cases = <<>>
    /\ df_history = <<>>
    /\ all_new_entries = <<>>
    /\ i = 0
    /\ driver = "none"
    /\ current_time = 0
    /\ delays = <<>>
    /\ fetched = <<>>
    /\ loaded = <<>>
    /\ cleaned = <<>>
    /\ last_records = [c \in Cases |-> <<>>]

NextClean == LoadHistory

SpecClean == InitClean /\ [][NextClean]_vars

\* ------------------------- get_case_timeline: the scan of the HISTORY lines
\* Longest HISTORY section, in lines.
MaxLines == 3

\* A stripped line of the section: a line of the shape of a date, with what
\* parse_date makes of it (InvalidDate when no format matches, as for
\* 'Sept 5, 2025'), or any other text.
DateLine(d) == [date_shaped |-> TRUE, parsed |-> d, text |-> ""]

TextLine(text) == [date_shaped |-> FALSE, parsed |-> InvalidDate, text |-> text]

\* re.match(r'^([A-Za-z]+\s+\d+,?\s*\d{4})$', line)
IsDateShaped(line) == line.date_shaped

\* parse_date(date_match.group(1))
parse_date(line) == line.parsed

status_keywords ==
    <<"Interview Cancelled", "Interview Canceled", "Interview Was Scheduled",
      "Card Was Delivered", "Card Was Produced", "Card Is Being Produced",
      "Case Was Approved", "Case Was Updated", "Request for Evidence",
      "Request For Initial Evidence Was Sent", "New Card Is Being Produced",
      "Case Was Received", "Case Was Received and A Receipt Notice Was Sent",
      "Fingerprint Fee Was Received", "Case Was Transferred",
      "Case Is Being Actively Reviewed By USCIS",
      "Biometrics Appointment Was Scheduled">>

\* The keywords with keyword.lower() in status_line.lower().  A line of the
\* shape of a date holds one word and digits, and so no keyword.
KeywordsIn(text) ==
    CASE text = "Case Was Updated" -> {"Case Was Updated"}
      [] text = "INTERVIEW CANCELLED" -> {"Interview Cancelled"}
      [] text = "Case Was Received and A Receipt Notice Was Sent" ->
            {"Case Was Received",
             "Case Was Received and A Receipt Notice Was Sent"}
      [] OTHER -> {}

\* len(status_line)
TextLength(text) ==
    CASE text = "" -> 0
      [] text = "N/A" -> 3
      [] text = "Case Was Updated" -> 16
      [] text = "Notice Was Mailed" -> 17
      [] text = "INTERVIEW CANCELLED" -> 19
      [] text = "Discover more cases" -> 19
      [] text = "Case Was Received and A Receipt Notice Was Sent" -> 47

\* status_line.startswith('Discover')
StartsWithDiscover(text) == text = "Discover more cases"

\* Lines 141-151: the status the line after a date yields, as a sequence of
\* length 0 or 1 (None is the empty sequence).
found_status(status_line) ==
    LET hits == {k \in 1..Len(status_keywords) :
                    /\ ~IsDateShaped(status_line)
                    /\ status_keywords[k] \in KeywordsIn(status_line.text)}
    IN  IF hits # {}
        THEN <<status_keywords[CHOOSE k \in hits : \A m \in hits : k <= m]>>
        ELSE IF /\ ~IsDateShaped(status_line)
                /\ status_line.text # ""
                /\ TextLength(status_line.text) > 3
                /\ ~StartsWithDiscover(status_line.text)
        THEN <<status_line.text>>
        ELSE <<>>

\* Lines 153-160: the pair joins the entries unless it is there already.
append_entry(entries, date_str, status) ==
    IF status # <<>> /\ Entry(date_str, status[1]) \notin Range(entries)
    THEN Append(entries, Entry(date_str, status[1]))
    ELSE entries

ScanTexts ==
    {"Case Was Updated", "INTERVIEW CANCELLED",
     "Case Was Received and A Receipt Notice Was Sent", "Notice Was Mailed",
     "N/A", "Discover more cases", ""}

ScanLines ==
    {DateLine(d) : d \in {InvalidDate} \cup 1..MaxDate}
    \cup {TextLine(t) : t \in ScanTexts}

\* Lines 103-109: the entries before the scan, with or without a filed date.
FiledEntries ==
    {<<>>} \cup {<<Entry(d, "Case Was Received")>> :
                    d \in {InvalidDate} \cup 1..MaxDate}

InitScan ==
    /\ MainIdle
    /\ ClassifierIdle
    /\ lines \in SeqsUpTo(ScanLines, MaxLines)
    /\ line_i = 0
    /\ scanned_entries \in FiledEntries

\* Lines 128-164: one turn of the while loop; lines[i] of the code is
\* lines[line_i + 1] here.
ScanLine ==
    /\ line_i < Len(lines)
    /\ LET line == lines[line_i + 1]
       IN  IF IsDateShaped(line) /\ line_i + 1 < Len(lines)
           THEN /\ scanned_entries' =
                       append_entry(scanned_entries, parse_date(line),
                                    found_status(lines[line_i + 2]))
                /\ line_i' = line_i + 2
           ELSE /\ line_i' = line_i + 1
                /\ UNCHANGED scanned_entries
    /\ UNCHANGED lines
    /\ UNCHANGED <<main_vars, classifier_vars>>

NextScan == ScanLine

SpecScan == InitScan /\ [][NextScan]_vars

\* ------------------------------------------------------------ properties
RowsOf(df, case) == SelectSeq(df, LAMBDA r : r.receipt_number = case)

RowsOfType(df, case, t) ==
    SelectSeq(df, LAMBDA r : r.receipt_number = case /\ r.status_type = t)

NoUnknown(df) == \A r \in Range(df) : r.status_type # "unknown"

OnePerType(df) ==
    \A c \in Cases :
        \A a, b \in 1..Len(RowsOf(df, c)) :
            a # b => RowsOf(df, c)[a].status_type # RowsOf(df, c)[b].status_type

HoldsTriple(df, case, tr) ==
    \E r \in Range(df) :
        /\ r.receipt_number = case
        /\ r.status_type = tr[1]
        /\ r.status_date = tr[2]
        /\ r.status = tr[3]

\* The cases of this run whose every fetch so far failed.
FailedOnly(case) ==
    /\ \E k \in 1..Len(fetched) : cases[k] = case
    /\ \A k \in 1..Len(fetched) : cases[k] = case => fetched[k] = "fail"

\* C1: in the saved store every case has at most 3 records and no two records
\* of a case share a status_type.
C1_SavedStoreOnePerType ==
    pc = "done" =>
        /\ \A c \in Cases : Len(RowsOf(history_file.rows, c)) <= 3
        /\ OnePerType(history_file.rows)

\* C2: a merge that presents for a case the records its previous merge
\* presented leaves the store (the frame and the entries waiting to join it)
\* as it was.
C2_SameRecordsTwiceIdempotent ==
    [][(/\ pc = "loop"
        /\ i <= Len(cases)
        /\ fetched' = Append(fetched, "ok")
        /\ last_records[cases[i]] # <<>>
        /\ last_records'[cases[i]] = last_records[cases[i]])
       => (df_history' = df_history /\ all_new_entries' = all_new_entries)]_vars

\* C3: for every case fetched in the run and every record the classifier
\* emitted for it, the saved store holds a record of that case and type with
\* the new date and status, and holds no record of that case and type with
\* another date or status.
C3_MergeIsUpsert ==
    pc = "done" =>
        \A c \in Cases :
            last_records[c] # <<>> =>
                \A tr \in last_records[c][1] :
                    /\ HoldsTriple(history_file.rows, c, tr)
                    /\ \A r \in Range(RowsOfType(history_file.rows, c, tr[1])) :
                           r.status_date = tr[2] /\ r.status = tr[3]

\* C4: a case whose fetches all failed has added no entry, and its rows in
\* the frame, and in the saved file, are its rows after cleaning.
C4_FailedCaseUntouched ==
    \A c \in Cases :
        FailedOnly(c) =>
            /\ RowsOf(all_new_entries, c) = <<>>
            /\ RowsOf(df_history, c) = RowsOf(cleaned, c)
            /\ pc = "done" => RowsOf(history_file.rows, c) = RowsOf(cleaned, c)

C4_Witness ==
    /\ pc = "done"
    /\ all_new_entries # <<>>
    /\ df_history # cleaned
    /\ \E c \in Cases : FailedOnly(c) /\ RowsOf(history_file.rows, c) # <<>>

\* C5: cleaning keeps, for every case and type with rows, exactly the row
\* with the latest scraped_at among the case's rows of that type.
C5_CleanKeepsLatestObserved ==
    pc = "setup" =>
        \A c \in Cases, t \in StatusTypes :
            LET old == RowsOfType(loaded, c, t)
                kept == RowsOfType(cleaned, c, t)
            IN  old # <<>> =>
                    /\ Len(kept) = 1
                    /\ kept[1] \in Range(old)
                    /\ \A r \in Range(old) : r.scraped_at <= kept[1].scraped_at

\* C6: after cleaning the store has no 'unknown' row and at most one row per
\* case and type, cleaning it again changes nothing, and no 'unknown' row
\* enters the frame, the new entries or the saved file afterwards.
C6_CleanedStoreStaysClean ==
    pc \notin {"start", "returned"} =>
        /\ NoUnknown(cleaned)
        /\ OnePerType(cleaned)
        /\ clean_existing_history(cleaned) = cleaned
        /\ NoUnknown(df_history)
        /\ NoUnknown(all_new_entries)
        /\ pc = "done" => NoUnknown(history_file.rows)

C6_Witness ==
    /\ pc = "done"
    /\ ~NoUnknown(loaded)
    /\ cleaned # <<>>
    /\ all_new_entries # <<>>

\* Scenario B: an interview cancellation, then a later 'Case Was Updated'.
ScenarioB(d1, d2) ==
    <<Entry(d1, "Interview Cancelled"), Entry(d2, "Case Was Updated")>>

PositionIn(s, e) == CHOOSE k \in 1..Len(s) : s[k] = e

\* Entries of valid, equal date stand in `other` in the order they have in s.
KeepsOrderOfEqualDates(s, other) ==
    \A j, k \in 1..Len(s) :
        (j < k /\ IsIsoDate(s[j].date) /\ s[j].date = s[k].date)
        => PositionIn(other, s[j]) < PositionIn(other, s[k])

\* C8 as claimed: every reordering of the entries is classified alike.
C8_AnyOrderSamePicks ==
    phase = "classified" => reordered_records = history_records

\* C8 amended: a reordering that keeps entries of equal date in their order
\* is classified alike.
C8_EqualDatesInOrderSamePicks ==
    (phase = "classified" /\ KeepsOrderOfEqualDates(timeline_entries, reordered))
    => reordered_records = history_records

C8_Witness ==
    /\ phase = "classified"
    /\ reordered # timeline_entries
    /\ KeepsOrderOfEqualDates(timeline_entries, reordered)
    /\ \E j, k \in 1..Len(timeline_entries) :
          j < k /\ timeline_entries[j].date = timeline_entries[k].date
    /\ Len(history_records) = 3

\* C9: a delay follows every fetch but the last, and none follows the last.
C9_DelayBetweenFetchesOnly ==
    \A k \in 1..Len(delays) :
        /\ k < Len(cases) => delays[k] > 0
        /\ k = Len(cases) => delays[k] = 0

\* C10: when the run ends, however it ends, the saved file holds the records
\* of every case merged, and a completed run has gone through every case.
C10_MergedCasesPersisted ==
    /\ pc \in {"done", "crashed"} =>
          \A c \in Cases :
              last_records[c] # <<>> =>
                  \A tr \in last_records[c][1] :
                      HoldsTriple(history_file.rows, c, tr)
    /\ pc = "done" => Len(fetched) = Len(cases)

\* The line under the cursor is a date whose next line yields a status.
PairMatched ==
    /\ line_i + 1 < Len(lines)
    /\ IsDateShaped(lines[line_i + 1])
    /\ found_status(lines[line_i + 2]) # <<>>

\* The lines are a date, a date and a status that is accepted.
DateDateStatus ==
    /\ Len(lines) = 3
    /\ IsDateShaped(lines[1])
    /\ IsDateShaped(lines[2])
    /\ found_status(lines[3]) # <<>>

\* C11: the cursor of the line scan moves by two when a (date, status) pair
\* was matched and by one otherwise, and the scan of the lines [D1, D2, S]
\* ends with the pair (D2, S) among the entries.
C11_CursorSkipsTwoOnlyOnMatch ==
    /\ [][line_i' # line_i =>
            line_i' = line_i + (IF PairMatched THEN 2 ELSE 1)]_vars
    /\ []((DateDateStatus /\ line_i >= Len(lines)) =>
            Entry(parse_date(lines[2]), found_status(lines[3])[1])
                \in Range(scanned_entries))

\* The records of history_records of one status_type.
EmittedOfType(t) == SelectSeq(history_records, LAMBDA r : r.status_type = t)

\* history_records holds exactly one record of type t, made of entry e.
EmittedFor(t, e) == EmittedOfType(t) = <<Record(ReceiptNumbers[1], e, t, 1)>>

\* C12: the classifier emits at most one record of each status_type and no
\* two records with the same (date, status); case_received is emitted
\* whenever picked, interview_cancelled when picked and not the pair of
\* case_received, and last_status (the last entry in sorted order) exactly
\* when its pair is neither of the pairs already kept.
C12_OnePerTypeNoPairTwice ==
    phase = "classified" =>
        LET sorted == sorted_entries(valid_entries(timeline_entries))
            case_received == find_case_received(sorted)
            interview_cancelled == find_interview_cancelled(sorted)
            last_status == find_last_status(sorted)
            keep_cancelled ==
                /\ interview_cancelled # <<>>
                /\ interview_cancelled[1] \notin Range(case_received)
            kept == Range(case_received)
                        \cup (IF keep_cancelled THEN Range(interview_cancelled)
                              ELSE {})
        IN  /\ \A k \in 1..Len(history_records) :
                   history_records[k].status_type \in StatusTypes
            /\ \A t \in StatusTypes : Len(EmittedOfType(t)) <= 1
            /\ \A a, b \in 1..Len(history_records) :
                   a # b =>
                       \/ history_records[a].status_date
                              # history_records[b].status_date
                       \/ history_records[a].status # history_records[b].status
            /\ IF case_received # <<>>
               THEN EmittedFor("case_received", case_received[1])
               ELSE EmittedOfType("case_received") = <<>>
            /\ IF keep_cancelled
               THEN EmittedFor("interview_cancelled", interview_cancelled[1])
               ELSE EmittedOfType("interview_cancelled") = <<>>
            /\ IF last_status # <<>> /\ last_status[1] \notin kept
               THEN EmittedFor("last_status", last_status[1])
               ELSE EmittedOfType("last_status") = <<>>

\* Three valid entries of which the last in sorted order is a pick already
\* kept: two records come out.
C12_Witness ==
    /\ phase = "classified"
    /\ Len(valid_entries(timeline_entries)) = 3
    /\ Len(history_records) = 2
    /\ EmittedOfType("case_received") # <<>>
    /\ EmittedOfType("interview_cancelled") # <<>>
    /\ EmittedOfType("last_status") = <<>>

====
